---- MODULE Spec2Model ----
(***************************************************************************)
(* Model of sftpovw.fs.FS: the staged "overwrite" protocols put_safe0..4   *)
(* and get_safe0..4, the wrappers FS.put / FS.get, and temporary-name      *)
(* generation (FS.tmpfile, FS.tmpfile_local), FS.listtmp, the digest       *)
(* methods (FS.hash, FS.hash_bycmd, FS.hash_local) and FS.is_dir.          *)
(*                                                                         *)
(* A file system is a function from the paths that exist to their content; *)
(* a path is a record [parent, name] of character tuples; content is a     *)
(* tuple of bytes.  Every protocol is a table of primitive steps, in the   *)
(* order of its source lines; one action executes one primitive.           *)
(***************************************************************************)
EXTENDS Integers, Sequences, FiniteSets, TLC

VARIABLES rfs, lfs, call, ncalls, raced, dg

vars == <<rfs, lfs, call, ncalls, raced, dg>>

-----------------------------------------------------------------------------
(* Bounds of the model *)

\* longest payload (in bytes) handed to put
MaxLen == 2
\* how many distinct values the random token generators can return
NumTokens == 4
\* how many FS.put / FS.get invocations one behaviour makes
MaxCalls == 2
\* how many paths one digest request names
MaxPaths == 3
\* how many digest or is_dir calls one behaviour makes
MaxDigestCalls == 2

(* Program constants *)

\* for _ in range(10)
MaxAttempts == 10
\* stat.S_IFDIR
S_IFDIR == 16384

-----------------------------------------------------------------------------
(* Values *)

\* the invocations in flight: the callers make one call at a time
Sequential == {1}

\* two programs, each with its own session to the same server
Sessions == {1, 2}

\* the byte the payloads are made of (payloads differ in length); files found
\* before the first call hold other bytes, so old and new content never coincide
Bytes == {"x"}

Payloads == UNION {[1..n -> Bytes] : n \in 0..MaxLen}

None == [parent |-> <<>>, name |-> <<>>]

NoData == <<"-">>

\* where an open handle points once its file has no name left (unlinked, or
\* replaced by a rename onto its name)
Orphan == [parent |-> <<>>, name |-> <<"?">>]

\* content of the remote and of the local target before the first call
OldRemote == <<"a">>

OldLocal == <<"b">>

\* content of leftover files found in the directory before the first call
Garbage == <<"g">>

\* content written by an actor other than this program
OtherData == <<"o">>

HexDigits == <<"0", "1", "2", "3", "4", "5", "6", "7", "8", "9">>

\* Path("upload/hello")
RemotePath == [parent |-> <<"u">>, name |-> <<"h">>]

\* another destination in the same directory
Sibling == [parent |-> <<"u">>, name |-> <<"k">>]

\* Path(tmpf.name): an absolute path
LocalPath == [parent |-> <<"/", "t">>, name |-> <<"l">>]

\* the working directories of the callers
Root == <<"/">>

LocalDir == <<"/", "t">>

\* the arguments the command listtmp-local hands to FS.listtmp_local, each
\* with the working directory it is given in: the local target written as an
\* absolute path, written relative to the working directory with and without
\* a directory component, a path whose name is a wildcard of glob, a path
\* whose directory is one (no such directory exists), and the path
\* t/../t/[k-m], with ".." in its directory and a range for its name
LocalArgs ==
    {[cwd |-> Root, path |-> LocalPath],
     [cwd |-> Root, path |-> [parent |-> <<"t">>, name |-> <<"l">>]],
     [cwd |-> LocalDir, path |-> [parent |-> <<>>, name |-> <<"l">>]],
     [cwd |-> Root, path |-> [parent |-> LocalDir, name |-> <<"?">>]],
     [cwd |-> Root, path |-> [parent |-> <<"/", "?">>, name |-> <<"l">>]],
     [cwd |-> Root, path |-> [parent |-> <<"t", "/", ".", ".", "/", "t">>,
                              name |-> <<"[", "k", "-", "m", "]">>]]}

\* before listtmp_local is called
NoArg == [cwd |-> <<>>, path |-> None]

Levels == 0..4

-----------------------------------------------------------------------------
(* Pure helpers *)

\* secrets.token_hex(10): one of the values the generator can return
token_hex(i) == <<HexDigits[i]>>

Tokens == {token_hex(i) : i \in 1..NumTokens}

\* path.with_suffix(path.suffix + "." + suffix): the name grows by "." + suffix
with_suffix(path, suffix) == [path EXCEPT !.name = @ \o <<".">> \o suffix]

\* i.startswith(prefix)
startswith(i, prefix) ==
    Len(i) >= Len(prefix) /\ SubSeq(i, 1, Len(prefix)) = prefix

\* s.split("/")
RECURSIVE split(_)
split(s) ==
    LET slashes == {k \in 1..Len(s) : s[k] = "/"}
    IN IF slashes = {} THEN <<s>>
       ELSE LET k == CHOOSE j \in slashes : \A i \in slashes : j <= i
            IN <<SubSeq(s, 1, k - 1)>> \o split(SubSeq(s, k + 1, Len(s)))

\* "/".join(comps)
RECURSIVE join(_)
join(comps) ==
    IF comps = <<>> THEN <<>>
    ELSE IF Len(comps) = 1 THEN comps[1]
    ELSE comps[1] \o <<"/">> \o join(Tail(comps))

\* os.path.normpath, its loop over the components: empty ones and "." go,
\* ".." takes the component before it away, and stays where there is none
\* to take and the path is relative
RECURSIVE collapse(_, _, _)
collapse(comps, new, rooted) ==
    IF comps = <<>> THEN new
    ELSE LET comp == Head(comps)
             up == <<".", ".">>
         IN IF comp \in {<<>>, <<".">>} THEN collapse(Tail(comps), new, rooted)
            ELSE IF \/ comp # up
                    \/ ~rooted /\ new = <<>>
                    \/ new # <<>> /\ new[Len(new)] = up
                 THEN collapse(Tail(comps), Append(new, comp), rooted)
            ELSE IF new # <<>>
                 THEN collapse(Tail(comps), SubSeq(new, 1, Len(new) - 1), rooted)
            ELSE collapse(Tail(comps), new, rooted)

\* os.path.normpath(s): exactly two slashes at the head stay two
normpath(s) ==
    LET n == IF startswith(s, <<"/", "/">>) /\ ~startswith(s, <<"/", "/", "/">>)
             THEN 2
             ELSE IF startswith(s, <<"/">>) THEN 1 ELSE 0
        path == [k \in 1..n |-> "/"] \o join(collapse(split(s), <<>>, n > 0))
    IN IF path = <<>> THEN <<".">> ELSE path

\* os.path.join(a, b)
os_join(a, b) ==
    IF b # <<>> /\ Head(b) = "/" THEN b
    ELSE IF a = <<>> \/ a[Len(a)] = "/" THEN a \o b
    ELSE a \o <<"/">> \o b

\* os.path.abspath(dirname) in the working directory cwd; dirname is empty
\* for a path without directory component
abspath(cwd, dirname) == normpath(os_join(cwd, dirname))

\* tempfile.mkstemp(prefix=basename + ".", dir=dirname) called in the working
\* directory cwd: the candidate name, in the absolute form of the directory
mkstemp_name(cwd, path, rnd) ==
    [parent |-> abspath(cwd, path.parent), name |-> (path.name \o <<".">>) \o rnd]

Prefixes(data) == {SubSeq(data, 1, n) : n \in 0..Len(data)}

(* File-system primitives (sftp.stat / putfo / posix_rename / unlink and   *)
(* their os.* counterparts)                                               *)

FsExists(fs, p) == p \in DOMAIN fs

FsWrite(fs, p, data) ==
    [x \in DOMAIN fs \cup {p} |-> IF x = p THEN data ELSE fs[x]]

FsUnlink(fs, p) == [x \in DOMAIN fs \ {p} |-> fs[x]]

\* a write of data at offset 0 through an open handle: what the file holds
\* beyond the data stays; a file that no longer has a name is not in fs
FsOverlay(fs, p, data) ==
    [x \in DOMAIN fs |->
        IF x = p THEN data \o SubSeq(fs[x], Len(data) + 1, Len(fs[x]))
        ELSE fs[x]]

\* a rename that leaves the old name in place
FsRename_copy(fs, old, new) ==
    [x \in DOMAIN fs \cup {new} |-> IF x = new THEN fs[old] ELSE fs[x]]

\* POSIX rename: replaces an existing target atomically; old = new is a no-op
FsRename(fs, old, new) ==
    IF old = new THEN fs
    ELSE [x \in (DOMAIN fs \ {old}) \cup {new} |->
             IF x = new THEN fs[old] ELSE fs[x]]

-----------------------------------------------------------------------------
(* The protocols: one table per method, one entry per primitive call, in   *)
(* source order.  op is the primitive; a and b name its operands (the      *)
(* target path or a local variable holding a temporary name); guarded      *)
(* marks a call inside "if exists:".                                       *)

Step(op, a, b, guarded) == [op |-> op, a |-> a, b |-> b, guarded |-> guarded]

put_safe0 == <<
    Step("putfo", "path", "-", FALSE),
    Step("return_attr", "-", "-", FALSE) >>

put_safe1 == <<
    Step("exists", "path", "-", FALSE),
    Step("unlink", "path", "-", TRUE),
    Step("putfo", "path", "-", FALSE),
    Step("return_attr", "-", "-", FALSE) >>

\* put_safe2 removing the saved old content before the write
put_safe2_unlink_early == <<
    Step("tmpfile", "tmpfn1", "-", FALSE),
    Step("exists", "path", "-", FALSE),
    Step("rename", "path", "tmpfn1", TRUE),
    Step("unlink", "tmpfn1", "-", TRUE),
    Step("putfo", "path", "-", FALSE),
    Step("return_attr", "-", "-", FALSE) >>

put_safe2 == <<
    Step("tmpfile", "tmpfn1", "-", FALSE),
    Step("exists", "path", "-", FALSE),
    Step("rename", "path", "tmpfn1", TRUE),
    Step("putfo", "path", "-", FALSE),
    Step("unlink", "tmpfn1", "-", TRUE),
    Step("return_attr", "-", "-", FALSE) >>

\* put_safe3 writing in place: the temporary is generated but not written
put_safe3_inplace == <<
    Step("tmpfile", "tmpfn1", "-", FALSE),
    Step("putfo", "path", "-", FALSE),
    Step("return_attr", "-", "-", FALSE) >>

\* put_safe3 removing the destination before the rename
put_safe3_unlink_first == <<
    Step("tmpfile", "tmpfn1", "-", FALSE),
    Step("putfo", "tmpfn1", "-", FALSE),
    Step("exists", "path", "-", FALSE),
    Step("unlink", "path", "-", TRUE),
    Step("rename", "tmpfn1", "path", FALSE),
    Step("return_attr", "-", "-", FALSE) >>

put_safe3 == <<
    Step("tmpfile", "tmpfn1", "-", FALSE),
    Step("putfo", "tmpfn1", "-", FALSE),
    Step("rename", "tmpfn1", "path", FALSE),
    Step("return_attr", "-", "-", FALSE) >>

\* put_safe4 without its final unlink
put_safe4_nounlink == <<
    Step("exists", "path", "-", FALSE),
    Step("tmpfile", "tmpfn1", "-", FALSE),
    Step("tmpfile", "tmpfn2", "-", FALSE),
    Step("putfo", "tmpfn1", "-", FALSE),
    Step("rename", "path", "tmpfn2", TRUE),
    Step("rename", "tmpfn1", "path", FALSE),
    Step("return_attr", "-", "-", FALSE) >>

\* put_safe4 deleting the old content before the new one is in place
put_safe4_unlink_early == <<
    Step("exists", "path", "-", FALSE),
    Step("tmpfile", "tmpfn1", "-", FALSE),
    Step("tmpfile", "tmpfn2", "-", FALSE),
    Step("putfo", "tmpfn1", "-", FALSE),
    Step("rename", "path", "tmpfn2", TRUE),
    Step("unlink", "tmpfn2", "-", TRUE),
    Step("rename", "tmpfn1", "path", FALSE),
    Step("return_attr", "-", "-", FALSE) >>

\* put_safe4 renaming the old destination aside before the write
put_safe4_rename_first == <<
    Step("exists", "path", "-", FALSE),
    Step("tmpfile", "tmpfn1", "-", FALSE),
    Step("tmpfile", "tmpfn2", "-", FALSE),
    Step("rename", "path", "tmpfn2", TRUE),
    Step("putfo", "tmpfn1", "-", FALSE),
    Step("rename", "tmpfn1", "path", FALSE),
    Step("unlink", "tmpfn2", "-", TRUE),
    Step("return_attr", "-", "-", FALSE) >>

put_safe4 == <<
    Step("exists", "path", "-", FALSE),
    Step("tmpfile", "tmpfn1", "-", FALSE),
    Step("tmpfile", "tmpfn2", "-", FALSE),
    Step("putfo", "tmpfn1", "-", FALSE),
    Step("rename", "path", "tmpfn2", TRUE),
    Step("rename", "tmpfn1", "path", FALSE),
    Step("unlink", "tmpfn2", "-", TRUE),
    Step("return_attr", "-", "-", FALSE) >>

get_safe0 == <<
    Step("sftp_get", "path", "-", FALSE),
    Step("return_stat", "path", "-", FALSE) >>

get_safe1 == <<
    Step("os_exists", "path", "-", FALSE),
    Step("os_unlink", "path", "-", TRUE),
    Step("sftp_get", "path", "-", FALSE),
    Step("return_stat", "path", "-", FALSE) >>

get_safe2 == <<
    Step("os_exists", "path", "-", FALSE),
    Step("tmpfile_local", "tmpfn1", "-", TRUE),
    Step("os_rename", "path", "tmpfn1", TRUE),
    Step("sftp_get", "path", "-", FALSE),
    Step("os_unlink", "tmpfn1", "-", TRUE),
    Step("return_stat", "path", "-", FALSE) >>

\* get_safe3 without the rename of the temporary onto the target
get_safe3_norename == <<
    Step("tmpfile_local", "tmpfn1", "-", FALSE),
    Step("sftp_get", "tmpfn1", "-", FALSE),
    Step("return_stat", "path", "-", FALSE) >>

get_safe3 == <<
    Step("tmpfile_local", "tmpfn1", "-", FALSE),
    Step("sftp_get", "tmpfn1", "-", FALSE),
    Step("os_rename", "tmpfn1", "path", FALSE),
    Step("return_stat", "path", "-", FALSE) >>

\* get_safe4 renaming the local target aside before the remote file is read
get_safe4_rename_first == <<
    Step("os_exists", "path", "-", FALSE),
    Step("tmpfile_local", "tmpfn1", "-", FALSE),
    Step("tmpfile_local", "tmpfn2", "-", TRUE),
    Step("os_rename", "path", "tmpfn2", TRUE),
    Step("sftp_get", "tmpfn1", "-", FALSE),
    Step("os_rename", "tmpfn1", "path", FALSE),
    Step("os_unlink", "tmpfn2", "-", TRUE),
    Step("return_stat", "path", "-", FALSE) >>

get_safe4 == <<
    Step("os_exists", "path", "-", FALSE),
    Step("tmpfile_local", "tmpfn1", "-", FALSE),
    Step("sftp_get", "tmpfn1", "-", FALSE),
    Step("tmpfile_local", "tmpfn2", "-", TRUE),
    Step("os_rename", "path", "tmpfn2", TRUE),
    Step("os_rename", "tmpfn1", "path", FALSE),
    Step("os_unlink", "tmpfn2", "-", TRUE),
    Step("return_stat", "path", "-", FALSE) >>

\* getattr(self, f"put_safe{level}") / getattr(self, f"get_safe{level}")
Method(op, level) ==
    IF op = "put"
    THEN CASE level = 0 -> put_safe0 [] level = 1 -> put_safe1
           [] level = 2 -> put_safe2 [] level = 3 -> put_safe3
           [] level = 4 -> put_safe4
    ELSE CASE level = 0 -> get_safe0 [] level = 1 -> get_safe1
           [] level = 2 -> get_safe2 [] level = 3 -> get_safe3
           [] level = 4 -> get_safe4

-----------------------------------------------------------------------------
(* One invocation of FS.put or FS.get *)

\* what a get remembers of the put that returned right before it
NoCall == [op |-> "idle", level |-> 0, payload |-> <<>>, res |-> 0]

Idle == [op |-> "idle", level |-> 0, payload |-> <<>>, pc |-> 0,
         exists |-> FALSE, tmpfn1 |-> None, tmpfn2 |-> None,
         attempts |-> 0, checks |-> 0, reported |-> FALSE,
         res |-> 0, outcome |-> "none", error |-> "", steps |-> <<>>,
         pre |-> NoData, prev |-> NoCall, io |-> "-", fh |-> None,
         listing |-> "none", lattempts |-> 0, arg |-> NoArg, probe |-> None,
         tmplen |-> 0, listed |-> {}, dest |-> RemotePath]

Running(c) == c.outcome = "running"

Program(c) == Method(c.op, c.level)

Cur(c) == Program(c)[c.pc]

\* the path an operand of the current step stands for
Operand(c, ref) ==
    CASE ref = "path" -> (IF c.op = "put" THEN c.dest ELSE LocalPath)
      [] ref = "tmpfn1" -> c.tmpfn1
      [] ref = "tmpfn2" -> c.tmpfn2
      [] OTHER -> None

\* the next statement that runs: calls inside "if exists:" are skipped when it is false
Following(prog, i, exists) ==
    CHOOSE j \in (i + 1)..Len(prog) :
        /\ (exists \/ ~prog[j].guarded)
        /\ \A k \in (i + 1)..(j - 1) : ~(exists \/ ~prog[k].guarded)

\* the current primitive returned normally: control moves to the next statement
Advance(c, exists) ==
    [c EXCEPT !.pc = Following(Program(c), c.pc, exists),
              !.steps = Append(@, c.pc)]

\* an except branch that logs and does not re-raise
FS_except_swallow(c) == [c EXCEPT !.outcome = "returned"]

\* FS.put / FS.get, except branch: the exception is logged and re-raised
FS_except(c) == [c EXCEPT !.outcome = "raised"]

\* elapsed = time.time() - st, in ticks of the clock: 0 when the two readings
\* are equal
Elapsed == {0, 1}

\* FS.put / FS.get, try branch: the method returned res; the log call
\* evaluates res / elapsed, which raises inside the try when elapsed is 0
Return(c, res, elapsed) ==
    IF elapsed = 0
    THEN FS_except([c EXCEPT !.error = "ZeroDivisionError", !.res = res,
                             !.steps = Append(@, c.pc)])
    ELSE [c EXCEPT !.outcome = "returned", !.res = res, !.steps = Append(@, c.pc)]

\* the current primitive raised err: control leaves the method for the except branch
Raise(c, err) ==
    FS_except([c EXCEPT !.error = err, !.steps = Append(@, c.pc)])

\* str(path) of a pathlib.Path: the directory, "/" and the name; the name
\* alone when the path has no directory component
str(path) ==
    IF path.parent = <<>> THEN path.name
    ELSE IF path.parent = <<"/">> THEN path.parent \o path.name
    ELSE path.parent \o <<"/">> \o path.name

\* self.sftp.listdir(str(dirname)): the names of the entries of the directory
listdir(fs, dirname) == {x.name : x \in {y \in DOMAIN fs : y.parent = dirname}}

\* FS.listtmp(path) once tmpfile returned name and tmplen = len(str(name)):
\* the entries as long as str(name) that start with the target's name and a dot
listtmp(fs, path, tmplen) ==
    {[parent |-> path.parent, name |-> i] :
        i \in {j \in listdir(fs, path.parent) :
                  Len(j) = tmplen /\ startswith(j, path.name \o <<".">>)}}

\* the printable characters in the order of their code points, from "!" (33)
Ascii ==
    << "!", "\"", "#", "$", "%", "&", "'", "(", ")", "*", "+", ",", "-", ".", "/",
       "0", "1", "2", "3", "4", "5", "6", "7", "8", "9", ":", ";", "<", "=", ">",
       "?", "@", "A", "B", "C", "D", "E", "F", "G", "H", "I", "J", "K", "L", "M",
       "N", "O", "P", "Q", "R", "S", "T", "U", "V", "W", "X", "Y", "Z", "[", "\\",
       "]", "^", "_", "a", "b", "c", "d", "e", "f", "g", "h", "i", "j", "k",
       "l", "m", "n", "o", "p", "q", "r", "s", "t", "u", "v", "w", "x", "y", "z",
       "{", "|", "}", "~" >>

\* ord(ch), as far as the order of two characters goes
ord(ch) == CHOOSE k \in 1..Len(Ascii) : Ascii[k] = ch

\* fnmatch, the end of a character class: the index of the "]" that closes
\* the "[" at the head of pat, 0 when there is none; a "!" and a "]" right
\* after the "[" belong to the class
class_end(pat) ==
    LET j0 == IF Len(pat) >= 2 /\ pat[2] = "!" THEN 3 ELSE 2
        j1 == IF Len(pat) >= j0 /\ pat[j0] = "]" THEN j0 + 1 ELSE j0
        ends == {j \in j1..Len(pat) : pat[j] = "]"}
    IN IF ends = {} THEN 0 ELSE CHOOSE j \in ends : \A k \in ends : j <= k

\* fnmatch, the hyphens of a class that stand between the ends of a range:
\* the first "-" at or after index k, and again from three characters on
RECURSIVE range_hyphens(_, _)
range_hyphens(stuff, k) ==
    LET found == {j \in k..Len(stuff) : stuff[j] = "-"}
    IN IF found = {} THEN {}
       ELSE LET j == CHOOSE i \in found : \A h \in found : i <= h
            IN {j} \cup range_hyphens(stuff, j + 3)

\* fnmatch, a character against the inside of a class: its characters and
\* its ranges lo-hi, all of them excluded after a "!" at the head
in_class(ch, stuff) ==
    LET n == Len(stuff)
        negated == n >= 1 /\ stuff[1] = "!"
        \* a "-" at the end of the class is a character of it
        hyphens == range_hyphens(stuff, IF negated THEN 3 ELSE 2) \ {n}
        empty(j) == ord(stuff[j - 1]) > ord(stuff[j + 1])
        \* an empty range goes away with both its ends; when that uncovers a
        \* "!" at the head of the class, the class is read as negated, and a
        \* "-" after that "!" as a character
        uncovered == /\ ~negated /\ 2 \in hyphens /\ empty(2)
                     /\ n >= 4 /\ stuff[4] = "!"
                     /\ ~(5 \in hyphens /\ empty(5))
        ranges == {j \in hyphens : ~empty(j) /\ ~(uncovered /\ j = 5)}
        gone == {j \in hyphens : empty(j)}
        taken == UNION {{j - 1, j, j + 1} : j \in ranges \cup gone}
                   \cup (IF negated THEN {1} ELSE {})
                   \cup (IF uncovered THEN {4} ELSE {})
        match == \/ \E p \in (1..n) \ taken : stuff[p] = ch
                 \/ \E j \in ranges : /\ ord(stuff[j - 1]) <= ord(ch)
                                      /\ ord(ch) <= ord(stuff[j + 1])
    IN IF negated \/ uncovered THEN ~match ELSE match

\* fnmatch.fnmatch(name, pat): "*" matches any run of characters, "?" one
\* character, "[seq]" one character of seq, "[" alone itself
RECURSIVE fnmatch(_, _)
fnmatch(name, pat) ==
    IF pat = <<>> THEN name = <<>>
    ELSE LET c == Head(pat)
             rest == Tail(pat)
             close == class_end(pat)
         IN CASE c = "*" -> \/ fnmatch(name, rest)
                            \/ name # <<>> /\ fnmatch(Tail(name), pat)
              [] c = "?" -> name # <<>> /\ fnmatch(Tail(name), rest)
              [] c = "[" /\ close # 0 ->
                     /\ name # <<>>
                     /\ in_class(Head(name), SubSeq(pat, 2, close - 1))
                     /\ fnmatch(Tail(name), SubSeq(pat, close + 1, Len(pat)))
              [] OTHER -> name # <<>> /\ Head(name) = c /\ fnmatch(Tail(name), rest)

\* s.rstrip("/")
RECURSIVE rstrip(_)
rstrip(s) ==
    IF s # <<>> /\ s[Len(s)] = "/" THEN rstrip(SubSeq(s, 1, Len(s) - 1)) ELSE s

\* os.path.split(p): what stands before the last "/" and what after it
path_split(p) ==
    LET slashes == {k \in 1..Len(p) : p[k] = "/"}
        i == IF slashes = {} THEN 0 ELSE CHOOSE j \in slashes : \A k \in slashes : k <= j
        head == SubSeq(p, 1, i)
    IN << IF rstrip(head) = <<>> THEN head ELSE rstrip(head),
          SubSeq(p, i + 1, Len(p)) >>

\* a directory and the directories above it
RECURSIVE ancestors(_)
ancestors(d) ==
    IF d \in {Root, <<>>} THEN {d} ELSE {d} \cup ancestors(path_split(d)[1])

\* the directories of a local file system: those its files are in, and the
\* directory of the local target
Dirs(fs) == ancestors(LocalDir) \cup UNION {ancestors(x.parent) : x \in DOMAIN fs}

\* where the system finds the directory written d from the working directory
\* cwd: every step of the way is a directory, ".." leads to the one above;
\* <<>> when the way does not exist
realdir(fs, cwd, d) ==
    LET comps == split(os_join(cwd, d))
        at(k) == <<"/">> \o join(collapse(SubSeq(comps, 2, k), <<>>, TRUE))
        dirs == Dirs(fs)
    IN IF \A k \in 1..Len(comps) : at(k) \in dirs
       THEN at(Len(comps)) ELSE <<>>

\* the names of the directories in the directory at
subdirs(fs, at) ==
    {path_split(d)[2] : d \in {e \in Dirs(fs) : e # Root /\ path_split(e)[1] = at}}

\* os.listdir: the names of the files and directories in the directory at
entries(fs, at) ==
    IF at = <<>> THEN {}
    ELSE {x.name : x \in {y \in DOMAIN fs : y.parent = at}} \cup subdirs(fs, at)

\* glob.has_magic(s)
has_magic(s) == \E k \in 1..Len(s) : s[k] \in {"*", "?", "["}

\* glob, the names of a set that match pat; a name that starts with a dot
\* only when the pattern does
matching(names, pat) ==
    {n \in names : (Head(n) = "." => Head(pat) = ".") /\ fnmatch(n, pat)}

\* os.path.lexists(p) in the working directory cwd
lexists(fs, cwd, p) ==
    LET at == realdir(fs, cwd, path_split(p)[1])
    IN \/ realdir(fs, cwd, p) # <<>>
       \/ path_split(p)[2] \in entries(fs, at)

\* glob, the directories a directory part with a wildcard stands for, each
\* as the pattern writes it
RECURSIVE glob_dirs(_, _, _)
glob_dirs(fs, cwd, dirname) ==
    LET head == path_split(dirname)[1]
        tail == path_split(dirname)[2]
        heads == IF head # dirname /\ has_magic(head)
                 THEN glob_dirs(fs, cwd, head) ELSE {head}
    IN IF has_magic(tail)
       THEN UNION {{os_join(h, n) :
                      n \in matching(subdirs(fs, realdir(fs, cwd, h)), tail)} :
                   h \in heads}
       ELSE {os_join(h, tail) :
               h \in {g \in heads : lexists(fs, cwd, os_join(g, tail))}}

\* glob.glob(str(path) + ".*") in the working directory cwd: the entries
\* whose names match the pattern, in the directory of path or, when that has
\* a wildcard, in every directory it stands for; each is written with its
\* directory as the caller wrote it or as the wildcard matched it
glob(fs, cwd, path) ==
    LET pat == path.name \o <<".", "*">>
        dirs == IF has_magic(path.parent) THEN glob_dirs(fs, cwd, path.parent)
                ELSE {path.parent}
    IN UNION {{[parent |-> d, name |-> n] :
                 n \in matching(entries(fs, realdir(fs, cwd, d)), pat)} :
              d \in dirs}

\* path.parent / i: i itself when it is absolute or parent is empty
joinpath(parent, i) ==
    IF (i.parent # <<>> /\ Head(i.parent) = "/") \/ parent = <<>> THEN i
    ELSE IF i.parent = <<>> THEN [parent |-> parent, name |-> i.name]
    ELSE [parent |-> parent \o <<"/">> \o i.parent, name |-> i.name]

\* FS.listtmp_local(path), called in the working directory cwd, once
\* tmpfile_local returned name, tmplen = len(str(name)) and the name was
\* unlinked: the entries glob finds that are as long as str(name), which is
\* absolute
listtmp_local(fs, cwd, path, tmplen) ==
    {joinpath(path.parent, i) :
        i \in {g \in glob(fs, cwd, path) : Len(str(g)) = tmplen}}

At(p, ops) == Running(call[p]) /\ Cur(call[p]).op \in ops

\* the target's content, or NoData when the path does not exist
Content(fs, path) == IF FsExists(fs, path) THEN fs[path] ELSE NoData

SetCall(p, c) == call' = [call EXCEPT ![p] = c]

\* the name of the file behind a handle after rename(old, new): a handle
\* follows its file, and the file that had the name new loses it
HandleAfterRename(fh, old, new) ==
    CASE old = new -> fh
      [] fh = old -> new
      [] fh = new -> Orphan
      [] OTHER -> fh

\* the name of the file behind a handle after unlink(path)
HandleAfterUnlink(fh, path) == IF fh = path THEN Orphan ELSE fh

\* session p goes on as c after its rename(old, new); the handles the other
\* sessions hold open follow their files
SetCallRenaming(p, c, old, new) ==
    call' = [q \in DOMAIN call |->
                IF q = p THEN c
                ELSE [call[q] EXCEPT !.fh = HandleAfterRename(@, old, new)]]

\* session p goes on as c after its unlink(path)
SetCallUnlinking(p, c, path) ==
    call' = [q \in DOMAIN call |->
                IF q = p THEN c
                ELSE [call[q] EXCEPT !.fh = HandleAfterUnlink(@, path)]]

-----------------------------------------------------------------------------
(* Digest and is_dir calls: FS.hash, FS.hash_bycmd, FS.hash_local, FS.is_dir *)

Methods == {"hash", "hash_bycmd", "hash_local"}

\* a method that was not called yet
NotCalled == [outcome |-> "none", stage |-> "-", i |-> 0, res |-> <<>>,
              error |-> "", fellback |-> FALSE, execs |-> 0, argv |-> <<>>,
              stdout |-> <<>>, exit |-> 0, natives |-> 0, fh |-> None,
              oneshot |-> FALSE]

\* is_dir was not called yet
NoAnswer == [outcome |-> "none", st |-> [type |-> "-", perm |-> 0], res |-> FALSE]

\* the behaviour makes no digest call
NoDigests == [running |-> "-"]

\* before the first digest call: the class attribute HASH_ALGO, whether the
\* server has the digest extension, and what its shell does with the command
Digests(algo, ext, cmd) ==
    [algo |-> algo, ext |-> ext, cmd |-> cmd, running |-> "-",
     m |-> [x \in Methods |-> NotCalled], is_dir |-> NoAnswer]

-----------------------------------------------------------------------------
(* Initial states: the remote target is absent or holds some content, its  *)
(* directory may hold files named like temporaries (none, one, or one for   *)
(* every token); the local target is absent or holds some content.         *)

Init ==
    /\ \E d \in {OldRemote, NoData}, junk \in {0, 1, NumTokens} :
         rfs = [x \in (IF d = NoData THEN {} ELSE {RemotePath})
                       \cup {with_suffix(RemotePath, token_hex(i)) : i \in 1..junk} |->
                   IF x = RemotePath THEN d ELSE Garbage]
    /\ \E d \in {OldLocal, NoData} :
         lfs = [x \in (IF d = NoData THEN {} ELSE {LocalPath}) |-> d]
    /\ call = [p \in Sequential |-> Idle]
    /\ ncalls = 0
    /\ raced = FALSE
    /\ dg = NoDigests

-----------------------------------------------------------------------------
(* Actions *)

\* FS.put(fp, remotepath, level=level) / FS.get(remotepath, localpath, level=level);
\* the callers make the next call when the last one returned: an exception ends them
Call(p) ==
    /\ call[p].outcome \in {"none", "returned"}
    /\ ncalls < MaxCalls
    /\ \E op \in {"put", "get"}, level \in Levels, data \in Payloads :
         /\ op = "get" => data = <<>>
         /\ SetCall(p, [Idle EXCEPT !.op = op, !.level = level,
                                    !.payload = data, !.pc = 1,
                                    !.outcome = "running",
                                    !.pre = IF op = "put"
                                            THEN Content(rfs, RemotePath)
                                            ELSE Content(lfs, LocalPath),
                                    !.prev = IF op = "get" /\ call[p].op = "put"
                                             THEN [op |-> call[p].op,
                                                   level |-> call[p].level,
                                                   payload |-> call[p].payload,
                                                   res |-> call[p].res]
                                             ELSE NoCall])
    /\ ncalls' = ncalls + 1
    /\ UNCHANGED <<rfs, lfs, raced, dg>>

\* exists = self.exists(remotepath)
Exists(p) ==
    /\ At(p, {"exists"})
    /\ LET c == call[p]
           e == FsExists(rfs, Operand(c, Cur(c).a))
       IN SetCall(p, Advance([c EXCEPT !.exists = e], e))
    /\ UNCHANGED <<rfs, lfs, ncalls, raced, dg>>

\* a tmpfile that returns its candidate whatever the check reported
tmpfile_accepts_any(seen) == TRUE

\* if not self.exists(name): return name
tmpfile_accepts(seen) == ~seen

\* one iteration of the loop of FS.tmpfile, or the raise after the loop
Tmpfile(p) ==
    /\ At(p, {"tmpfile"})
    /\ LET c == call[p] IN
         IF c.attempts < MaxAttempts
         THEN \E suffix \in Tokens :
                LET name == with_suffix(c.dest, suffix)
                    seen == FsExists(rfs, name)
                    tried == [c EXCEPT !.attempts = @ + 1, !.checks = @ + 1]
                IN IF tmpfile_accepts(seen)
                   THEN SetCall(p, Advance(
                            [tried EXCEPT ![Cur(c).a] = name,
                                          !.reported = seen,
                                          !.attempts = 0, !.checks = 0],
                            c.exists))
                   ELSE SetCall(p, tried)
         ELSE SetCall(p, Raise(c, "cannot create tmpfile?"))
    /\ UNCHANGED <<rfs, lfs, ncalls, raced, dg>>

\* attr = self.sftp.putfo(fp, remotepath=..., file_size=file_size) is a
\* sequence of requests, and the server serves other sessions between them.
\* First request: the remote file is opened "wb", created or truncated
PutfoOpen(p) ==
    /\ At(p, {"putfo"}) /\ call[p].io = "-"
    /\ LET c == call[p]
           path == Operand(c, Cur(c).a)
       IN /\ rfs' = FsWrite(rfs, path, <<>>)
          /\ SetCall(p, [c EXCEPT !.io = "opened", !.fh = path])
    /\ UNCHANGED <<lfs, ncalls, raced, dg>>

\* putfo, second request: the data is written through the handle
PutfoWrite(p) ==
    /\ At(p, {"putfo"}) /\ call[p].io = "opened"
    /\ LET c == call[p] IN
         /\ rfs' = FsOverlay(rfs, c.fh, c.payload)
         /\ SetCall(p, [c EXCEPT !.io = "written"])
    /\ UNCHANGED <<lfs, ncalls, raced, dg>>

\* putfo, third request: the handle is closed
PutfoClose(p) ==
    /\ At(p, {"putfo"}) /\ call[p].io = "written"
    /\ SetCall(p, [call[p] EXCEPT !.io = "closed", !.fh = None])
    /\ UNCHANGED <<rfs, lfs, ncalls, raced, dg>>

\* putfo, last request: the confirming stat of the path; putfo raises when the
\* path is gone or its size is not the number of bytes sent, and returns the
\* attributes the stat saw
PutfoStat(p) ==
    /\ At(p, {"putfo"}) /\ call[p].io = "closed"
    /\ LET c == [call[p] EXCEPT !.io = "-"]
           path == Operand(c, Cur(c).a)
       IN IF ~FsExists(rfs, path)
          THEN SetCall(p, Raise(c, "FileNotFoundError"))
          ELSE IF Len(rfs[path]) # Len(c.payload)
               THEN SetCall(p, Raise(c, "IOError"))
               ELSE SetCall(p, Advance([c EXCEPT !.res = Len(rfs[path])],
                                       c.exists))
    /\ UNCHANGED <<rfs, lfs, ncalls, raced, dg>>

\* a request of putfo raises: the open and the close change nothing, the
\* write leaves what was sent so far, the stat leaves the file as written
PutfoFails(p) ==
    /\ At(p, {"putfo"})
    /\ LET c == call[p] IN
         /\ IF c.io = "opened"
            THEN \E sent \in Prefixes(c.payload) :
                   rfs' = FsOverlay(rfs, c.fh, sent)
            ELSE rfs' = rfs
         /\ SetCall(p, Raise([c EXCEPT !.io = "-", !.fh = None], "IOError"))
    /\ UNCHANGED <<lfs, ncalls, raced, dg>>

\* self.sftp.posix_rename(str(old), str(new))
PosixRename(p) ==
    /\ At(p, {"rename"})
    /\ LET c == call[p]
           old == Operand(c, Cur(c).a)
           new == Operand(c, Cur(c).b)
       IN IF FsExists(rfs, old)
          THEN /\ rfs' = FsRename(rfs, old, new)
               /\ SetCallRenaming(p, Advance(c, c.exists), old, new)
          ELSE /\ rfs' = rfs
               /\ SetCall(p, Raise(c, "FileNotFoundError"))
    /\ UNCHANGED <<lfs, ncalls, raced, dg>>

\* self.sftp.unlink(str(path))
Unlink(p) ==
    /\ At(p, {"unlink"})
    /\ LET c == call[p]
           path == Operand(c, Cur(c).a)
       IN IF FsExists(rfs, path)
          THEN /\ rfs' = FsUnlink(rfs, path)
               /\ SetCallUnlinking(p, Advance(c, c.exists), path)
          ELSE /\ rfs' = rfs
               /\ SetCall(p, Raise(c, "FileNotFoundError"))
    /\ UNCHANGED <<lfs, ncalls, raced, dg>>

\* return attr.st_size
ReturnAttr(p) ==
    /\ At(p, {"return_attr"})
    /\ \E elapsed \in Elapsed : SetCall(p, Return(call[p], call[p].res, elapsed))
    /\ UNCHANGED <<rfs, lfs, ncalls, raced, dg>>

\* exists = os.path.exists(localpath)
OsPathExists(p) ==
    /\ At(p, {"os_exists"})
    /\ LET c == call[p]
           e == FsExists(lfs, Operand(c, Cur(c).a))
       IN SetCall(p, Advance([c EXCEPT !.exists = e], e))
    /\ UNCHANGED <<rfs, lfs, ncalls, raced, dg>>

\* FS.tmpfile_local: mkstemp creates an empty file under a name not in use
TmpfileLocal(p) ==
    /\ At(p, {"tmpfile_local"})
    /\ LET c == call[p]
           free == {n \in {mkstemp_name(Root, LocalPath, r) : r \in Tokens} :
                       ~FsExists(lfs, n)}
       IN IF free # {}
          THEN \E name \in free :
                 /\ lfs' = FsWrite(lfs, name, <<>>)
                 /\ SetCall(p, Advance([c EXCEPT ![Cur(c).a] = name], c.exists))
          ELSE /\ lfs' = lfs
               /\ SetCall(p, Raise(c, "FileExistsError"))
    /\ UNCHANGED <<rfs, ncalls, raced, dg>>

\* self.sftp.get(remotepath=str(remotepath), localpath=...): the local file is
\* opened for writing (created or truncated) before the remote one is read
SftpGet(p) ==
    /\ At(p, {"sftp_get"})
    /\ LET c == call[p]
           local == Operand(c, Cur(c).a)
       IN IF FsExists(rfs, RemotePath)
          THEN /\ lfs' = FsWrite(lfs, local, rfs[RemotePath])
               /\ SetCall(p, Advance(c, c.exists))
          ELSE /\ lfs' = FsWrite(lfs, local, <<>>)
               /\ SetCall(p, Raise(c, "FileNotFoundError"))
    /\ UNCHANGED <<rfs, ncalls, raced, dg>>

\* sftp.get raises: the local file was not opened, or holds what was received so far
SftpGetFails(p) ==
    /\ At(p, {"sftp_get"})
    /\ LET c == call[p]
           data == IF FsExists(rfs, RemotePath) THEN rfs[RemotePath] ELSE <<>>
       IN /\ \/ lfs' = lfs
             \/ \E got \in Prefixes(data) :
                  lfs' = FsWrite(lfs, Operand(c, Cur(c).a), got)
          /\ SetCall(p, Raise(c, "IOError"))
    /\ UNCHANGED <<rfs, ncalls, raced, dg>>

\* os.rename(old, new)
OsRename(p) ==
    /\ At(p, {"os_rename"})
    /\ LET c == call[p]
           old == Operand(c, Cur(c).a)
           new == Operand(c, Cur(c).b)
       IN IF FsExists(lfs, old)
          THEN /\ lfs' = FsRename(lfs, old, new)
               /\ SetCall(p, Advance(c, c.exists))
          ELSE /\ lfs' = lfs
               /\ SetCall(p, Raise(c, "FileNotFoundError"))
    /\ UNCHANGED <<rfs, ncalls, raced, dg>>

\* os.unlink(path)
OsUnlink(p) ==
    /\ At(p, {"os_unlink"})
    /\ LET c == call[p]
           path == Operand(c, Cur(c).a)
       IN IF FsExists(lfs, path)
          THEN /\ lfs' = FsUnlink(lfs, path)
               /\ SetCall(p, Advance(c, c.exists))
          ELSE /\ lfs' = lfs
               /\ SetCall(p, Raise(c, "FileNotFoundError"))
    /\ UNCHANGED <<rfs, ncalls, raced, dg>>

\* return localpath.stat().st_size
ReturnStat(p) ==
    /\ At(p, {"return_stat"})
    /\ LET c == call[p] IN
         IF FsExists(lfs, LocalPath)
         THEN \E elapsed \in Elapsed :
                SetCall(p, Return(c, Len(lfs[LocalPath]), elapsed))
         ELSE SetCall(p, Raise(c, "FileNotFoundError"))
    /\ UNCHANGED <<rfs, lfs, ncalls, raced, dg>>

\* a primitive other than a transfer raises (connection lost, permission denied, ...)
\* and changes nothing; os.path.exists reports False instead of raising
PrimitiveFails(p) ==
    /\ At(p, {"exists", "tmpfile", "rename", "unlink",
              "tmpfile_local", "os_rename", "os_unlink"})
    /\ SetCall(p, Raise(call[p], "IOError"))
    /\ UNCHANGED <<rfs, lfs, ncalls, raced, dg>>

\* FS.listtmp(remotepath), called once the put raised.  name =
\* self.tmpfile(path): one iteration of the loop of FS.tmpfile (one stat
\* request), or the raise after the loop; the name is used for tmplen =
\* len(str(name)) and not again
ListtmpTmpfile(p) ==
    /\ call[p].op = "put" /\ call[p].outcome = "raised"
    /\ call[p].listing = "none"
    /\ LET c == call[p] IN
         IF c.lattempts < MaxAttempts
         THEN \E suffix \in Tokens :
                LET name == with_suffix(RemotePath, suffix)
                    seen == FsExists(rfs, name)
                IN IF tmpfile_accepts(seen)
                   THEN SetCall(p, [c EXCEPT !.listing = "named",
                                             !.lattempts = 0,
                                             !.tmplen = Len(str(name))])
                   ELSE SetCall(p, [c EXCEPT !.lattempts = @ + 1])
         ELSE SetCall(p, [c EXCEPT !.listing = "raised", !.lattempts = 0])
    /\ UNCHANGED <<rfs, lfs, ncalls, raced, dg>>

\* FS.listtmp, the listdir request and the filter on its answer
ListtmpListdir(p) ==
    /\ call[p].op = "put" /\ call[p].listing = "named"
    /\ LET c == call[p] IN
         SetCall(p, [c EXCEPT !.listing = "returned", !.tmplen = 0,
                              !.listed = listtmp(rfs, RemotePath, c.tmplen)])
    /\ UNCHANGED <<rfs, lfs, ncalls, raced, dg>>

\* FS.listtmp_local(path), called once the get raised, with one of the
\* arguments of the command.  name = cls.tmpfile_local(path): mkstemp creates
\* an empty file under a name not in use and returns the name in absolute
\* form; it raises when the directory does not exist or every name is in use
ListtmpLocalMkstemp(p) ==
    /\ call[p].op = "get" /\ call[p].outcome = "raised"
    /\ call[p].listing = "none"
    /\ \E arg \in LocalArgs :
       \* where the directory of the absolute name is
       \E dir \in {realdir(lfs, Root, abspath(arg.cwd, arg.path.parent))} :
         LET c == call[p]
             at(n) == [n EXCEPT !.parent = dir]
             free == {n \in {mkstemp_name(arg.cwd, arg.path, r) : r \in Tokens} :
                         dir # <<>> /\ ~FsExists(lfs, at(n))}
         IN IF free # {}
            THEN \E name \in free :
                   /\ lfs' = FsWrite(lfs, at(name), <<>>)
                   /\ SetCall(p, [c EXCEPT !.listing = "named", !.arg = arg,
                                           !.probe = at(name),
                                           !.tmplen = Len(str(name))])
            ELSE /\ lfs' = lfs
                 /\ SetCall(p, [c EXCEPT !.listing = "raised"])
    /\ UNCHANGED <<rfs, ncalls, raced, dg>>

\* FS.listtmp_local, os.unlink(name): the file mkstemp created is removed, or
\* os.unlink raises and the file stays
ListtmpLocalUnlink(p) ==
    /\ call[p].op = "get" /\ call[p].listing = "named"
    /\ LET c == call[p] IN
         \/ /\ lfs' = FsUnlink(lfs, c.probe)
            /\ SetCall(p, [c EXCEPT !.listing = "unlinked", !.probe = None])
         \/ /\ lfs' = lfs
            /\ SetCall(p, [c EXCEPT !.listing = "raised", !.probe = None,
                                    !.arg = NoArg, !.tmplen = 0])
    /\ UNCHANGED <<rfs, ncalls, raced, dg>>

\* FS.listtmp_local, the glob and the filter on what it finds
ListtmpLocalGlob(p) ==
    /\ call[p].op = "get" /\ call[p].listing = "unlinked"
    /\ LET c == call[p] IN
         SetCall(p, [c EXCEPT !.listing = "returned", !.tmplen = 0,
                              !.listed = listtmp_local(lfs, c.arg.cwd, c.arg.path,
                                                       c.tmplen)])
    /\ UNCHANGED <<rfs, lfs, ncalls, raced, dg>>

\* another actor creates the remote target while this program is about to send
OtherCreates ==
    /\ ~raced
    /\ \E p \in Sequential : At(p, {"putfo"}) /\ call[p].op = "put"
    /\ ~FsExists(rfs, RemotePath)
    /\ rfs' = FsWrite(rfs, RemotePath, OtherData)
    /\ raced' = TRUE
    /\ UNCHANGED <<lfs, call, ncalls, dg>>

Steps(p) ==
    \/ Call(p)
    \/ Exists(p)
    \/ Tmpfile(p)
    \/ PutfoOpen(p)
    \/ PutfoWrite(p)
    \/ PutfoClose(p)
    \/ PutfoStat(p)
    \/ PutfoFails(p)
    \/ PosixRename(p)
    \/ Unlink(p)
    \/ ReturnAttr(p)
    \/ OsPathExists(p)
    \/ TmpfileLocal(p)
    \/ SftpGet(p)
    \/ SftpGetFails(p)
    \/ OsRename(p)
    \/ OsUnlink(p)
    \/ ReturnStat(p)
    \/ PrimitiveFails(p)
    \/ ListtmpTmpfile(p)
    \/ ListtmpListdir(p)
    \/ ListtmpLocalMkstemp(p)
    \/ ListtmpLocalUnlink(p)
    \/ ListtmpLocalGlob(p)

Next == \E p \in Sequential : Steps(p)

Spec == Init /\ [][Next]_vars

NextRace == Next \/ OtherCreates

SpecRace == Init /\ [][NextRace]_vars

-----------------------------------------------------------------------------
(* Two puts at once: each session runs one put, of any level, onto the     *)
(* same destination or onto two destinations in one directory; the server  *)
(* executes one request at a time, in any order; no request fails for a    *)
(* reason outside the two programs.  Session 1 puts one byte and session 2  *)
(* two, so that each file tells whose content it holds.                    *)

InitConc ==
    /\ \E dest2 \in {RemotePath, Sibling}, old \in SUBSET {RemotePath, Sibling},
          l1 \in Levels, l2 \in Levels, b1 \in Payloads, b2 \in Payloads :
         /\ old \subseteq {RemotePath, dest2}
         /\ Len(b1) = 1 /\ Len(b2) = 2
         /\ rfs = [x \in old |-> IF x = RemotePath THEN OldRemote ELSE OtherData]
         /\ call = [p \in Sessions |->
                      [Idle EXCEPT !.op = "put", !.pc = 1, !.outcome = "running",
                                   !.level = IF p = 1 THEN l1 ELSE l2,
                                   !.payload = IF p = 1 THEN b1 ELSE b2,
                                   !.dest = IF p = 1 THEN RemotePath ELSE dest2,
                                   !.pre = IF (IF p = 1 THEN RemotePath ELSE dest2) \in old
                                           THEN (IF (IF p = 1 THEN RemotePath ELSE dest2)
                                                       = RemotePath
                                                 THEN OldRemote ELSE OtherData)
                                           ELSE NoData]]
    /\ lfs = <<>>
    /\ ncalls = 0
    /\ raced = FALSE
    /\ dg = NoDigests

StepsConc(p) ==
    \/ Exists(p)
    \/ Tmpfile(p)
    \/ PutfoOpen(p)
    \/ PutfoWrite(p)
    \/ PutfoClose(p)
    \/ PutfoStat(p)
    \/ PosixRename(p)
    \/ Unlink(p)
    \/ ReturnAttr(p)

NextConc == \E p \in Sessions : StepsConc(p)

SpecConc == InitConc /\ [][NextConc]_vars

-----------------------------------------------------------------------------
(* Digests: FS.hash, FS.hash_bycmd, FS.hash_local *)

\* HASH_ALGO = "sha1"  # normally "sha1" or "md5"
HashAlgos == {"sha1", "md5"}

\* the i-th path of a request, and what the file at it holds
HashPath(i) == [parent |-> <<"u">>, name |-> <<HexDigits[i]>>]

HashPaths == [i \in 1..MaxPaths |-> HashPath(i)]

FileData(i) == [k \in 1..i |-> "a"]

\* a key of a returned mapping: the Path object itself (hash), str(path)
\* (hash_local), or the file name read from the command's output (hash_bycmd)
Key(type, text) == [type |-> type, text |-> text]

\* the hex digest of data under algo
digest(algo, data) == [algo |-> algo, of |-> data]

\* fp.check(self.HASH_ALGO).hex() on the open remote file: the digest of
\* what the file behind the handle holds when the request is served
check(fs, fh, algo) == digest(algo, fs[fh])

\* the name another client gives to a file it renames
Moved == [parent |-> <<"u">>, name |-> <<"9">>]

\* res[path] = ...
Store(res, key, val) ==
    [k \in DOMAIN res \cup {key} |-> IF k = key THEN val ELSE res[k]]

\* the output of "sha1sum arg..." on the server: one line, digest and file
\* name, for every argument that names a file, in the order of the arguments;
\* without an argument the command digests its standard input, which
\* stdin.close() has ended, under the name "-"
sha1sum(fs, args) ==
    LET file(a) == {x \in DOMAIN fs : str(x) = a}
        found == SelectSeq(args, LAMBDA a : file(a) # {})
    IN IF args = <<>>
       THEN << [val |-> digest("sha1", <<>>), fn |-> <<"-">>] >>
       ELSE [k \in 1..Len(found) |->
               [val |-> digest("sha1", fs[CHOOSE x \in file(found[k]) : TRUE]),
                fn |-> found[k]]]

\* the statuses recv_exit_status() gives: -1 when the server sent none (the
\* command was killed, the connection went away), 2 for every status the
\* code does not name
Exits == {-1, 0, 1, 2, 127}

\* what stdout.read() gives when the command did not write all of lines: n
\* whole lines, and then nothing ("none"), or the next line cut inside its
\* digest ("digest", no file name follows), or cut inside its file name
\* ("name")
cut_output(lines, n, cut) ==
    LET whole == SubSeq(lines, 1, n)
        next == lines[n + 1]
    IN IF cut = "none" THEN whole
       ELSE IF cut = "digest" THEN Append(whole, [val |-> next.val, fn |-> <<>>])
       ELSE Append(whole, [val |-> next.val,
                           fn |-> SubSeq(next.fn, 1, Len(next.fn) - 1)])

\* val, fn = line.strip().split(maxsplit=1) raises ValueError for a line
\* that has no second word
unpack_raises(lines) == \E k \in 1..Len(lines) : lines[k].fn = <<>>

\* for line in stdout_str.splitlines(): val, fn = line.strip().split(maxsplit=1);
\* res[fn] = val  (a later line for the same name replaces an earlier one)
RECURSIVE parse(_)
parse(lines) ==
    IF lines = <<>> THEN <<>>
    ELSE LET last == lines[Len(lines)]
         IN Store(parse(SubSeq(lines, 1, Len(lines) - 1)),
                  Key("output", last.fn), last.val)

\* hash_bycmd raising on every status but 0
bycmd_raises_unless_zero(exit, res) == exit # 0

\* hash_bycmd: status 127 raises; a status other than 0 and 1 raises when no
\* line was parsed
bycmd_raises(exit, res) ==
    \/ exit = 127
    \/ exit \notin {0, 1} /\ DOMAIN res = {}

\* hash_local keyed by the file names without their directory
hash_local_byname(fs, paths, algo) ==
    [k \in {Key("str", paths[i].name) : i \in 1..Len(paths)} |->
        digest(algo, fs[CHOOSE x \in DOMAIN fs : x.name = k.text])]

\* hash_local(paths) when every file can be opened
hash_local(fs, paths, algo) ==
    [k \in {Key("str", str(paths[i])) : i \in 1..Len(paths)} |->
        digest(algo, fs[CHOOSE x \in DOMAIN fs : str(x) = k.text])]

(* FS.is_dir *)

\* the file types of stat (S_IFMT values); "none" is a reply without st_mode
FileType == [none |-> 0, fifo |-> 4096, chr |-> 8192, dir |-> 16384,
             blk |-> 24576, reg |-> 32768, sock |-> 49152]

\* permission bits of the entries
Perms == {420}

\* what self.sftp.stat(str(path)) gives: FileNotFoundError ("absent"), or
\* attributes; stat follows symbolic links, so no reply has the link type
Stats == {[type |-> "absent", perm |-> 0], [type |-> "none", perm |-> 0]}
             \cup [type : {"fifo", "chr", "dir", "blk", "reg", "sock"}, perm : Perms]

st_mode(st) == FileType[st.type] + st.perm

\* a & b
RECURSIVE bitand(_, _)
bitand(a, b) ==
    IF a = 0 \/ b = 0 THEN 0
    ELSE 2 * bitand(a \div 2, b \div 2)
           + (IF a % 2 = 1 /\ b % 2 = 1 THEN 1 ELSE 0)

\* FS.is_dir once stat answered
is_dir(st) ==
    IF st.type = "absent" THEN FALSE
    ELSE IF st_mode(st) = 0 THEN FALSE
    ELSE bitand(st_mode(st), S_IFDIR) # 0

(* One call of a digest method or of is_dir at a time.  is_dir and the     *)
(* digest methods touch nothing in common: a behaviour calls the digest     *)
(* methods, or it calls is_dir.                                             *)

Dg(x) == dg.m[x]

DgAt(x, stage) == dg.running = x /\ Dg(x).stage = stage

\* the call goes on
DgStep(x, c) == dg' = [dg EXCEPT !.m[x] = c]

\* the call returns or raises
DgEnd(x, c) == dg' = [dg EXCEPT !.m[x] = c, !.running = "-"]

\* FS.hash, except IOError: return self.hash_bycmd(paths).  paths is the
\* Iterable the for loop was drawing from: a sequence is iterated again from
\* its start, a one-shot iterator (a generator, a map) goes on after the
\* path whose request raised
hash_except(c) ==
    [c EXCEPT !.stage = "exec", !.fellback = TRUE, !.res = <<>>, !.fh = None,
              !.error = "",
              !.argv = IF c.oneshot THEN SubSeq(HashPaths, c.i + 1, MaxPaths)
                       ELSE HashPaths]

InitDigest ==
    /\ \E present \in SUBSET (1..MaxPaths) :
         rfs = [x \in {HashPath(i) : i \in present} |->
                   FileData(CHOOSE i \in present : HashPath(i) = x)]
    /\ \E copied \in {1..MaxPaths, 1..(MaxPaths - 1)} :
         lfs = [x \in {HashPath(i) : i \in copied} |->
                   FileData(CHOOSE i \in copied : HashPath(i) = x)]
    /\ call = [p \in Sequential |-> NoCall]
    /\ ncalls = 0
    /\ raced = FALSE
    /\ \E algo \in HashAlgos, ext \in BOOLEAN, cmd \in {"missing", "ran", "abnormal"} :
         dg = Digests(algo, ext, cmd)

\* FS.hash(paths) / FS.hash_bycmd(paths) is called, paths a sequence (as
\* main.py passes a tuple) or a one-shot iterator; hash_bycmd draws from
\* paths once, so the two kinds do not differ for it
HashCall(x) ==
    /\ x \in {"hash", "hash_bycmd"}
    /\ dg.running = "-" /\ Dg(x).outcome = "none"
    /\ dg.is_dir.outcome = "none"
    /\ ncalls < MaxDigestCalls
    /\ ncalls' = ncalls + 1
    /\ \E oneshot \in (IF x = "hash" THEN BOOLEAN ELSE {FALSE}) :
         dg' = [dg EXCEPT !.running = x,
                          !.m[x] = [NotCalled EXCEPT
                                       !.outcome = "running", !.i = 1,
                                       !.oneshot = oneshot,
                                       !.stage = IF x = "hash" THEN "native" ELSE "exec",
                                       !.argv = IF x = "hash" THEN <<>> ELSE HashPaths]]
    /\ UNCHANGED <<rfs, lfs, call, raced>>

\* FS.hash, one iteration, is three requests, and the server serves other
\* clients between them.  First request: self.sftp.file(str(path)) opens the
\* file the name stands for; a missing file raises IOError, which the except
\* branch catches
HashOpen ==
    /\ DgAt("hash", "native") /\ Dg("hash").i <= MaxPaths
    /\ LET c == Dg("hash")
           path == HashPaths[c.i]
       IN IF FsExists(rfs, path)
          THEN DgStep("hash", [c EXCEPT !.stage = "opened", !.fh = path])
          ELSE DgStep("hash", hash_except([c EXCEPT !.error = "IOError"]))
    /\ UNCHANGED <<rfs, lfs, call, ncalls, raced>>

\* FS.hash, second request: fp.check(self.HASH_ALGO) on the open handle; a
\* server without the extension raises IOError, and the with block closes
\* the handle before the except branch sees it
HashCheck ==
    /\ DgAt("hash", "opened")
    /\ LET c == Dg("hash")
           path == HashPaths[c.i]
       IN IF dg.ext
          THEN DgStep("hash", [c EXCEPT !.res = Store(@, Key("Path", str(path)),
                                                     check(rfs, c.fh, dg.algo)),
                                        !.natives = @ + 1,
                                        !.stage = "checked"])
          ELSE DgStep("hash", [c EXCEPT !.stage = "aborted", !.error = "IOError"])
    /\ UNCHANGED <<rfs, lfs, call, ncalls, raced>>

\* FS.hash, third request: the with block closes the handle (a close request
\* that fails does not raise: the handle's close ignores the error); the loop
\* goes on, or the IOError of the check reaches the except branch
HashClose ==
    /\ dg.running = "hash" /\ Dg("hash").stage \in {"checked", "aborted"}
    /\ LET c == Dg("hash") IN
         IF c.stage = "checked"
         THEN DgStep("hash", [c EXCEPT !.stage = "native", !.fh = None,
                                       !.i = @ + 1])
         ELSE DgStep("hash", hash_except(c))
    /\ UNCHANGED <<rfs, lfs, call, ncalls, raced>>

\* FS.hash, one iteration: the open or the check request fails in transit
\* with an IOError.  A failed open goes to the except branch; a failed check
\* leaves the with block first, which sends the close request
HashCheckFails ==
    /\ dg.running = "hash"
    /\ LET c == Dg("hash") IN
         \/ /\ c.stage = "native" /\ c.i <= MaxPaths
            /\ DgStep("hash", hash_except([c EXCEPT !.error = "IOError"]))
         \/ /\ c.stage = "opened"
            /\ DgStep("hash", [c EXCEPT !.stage = "aborted", !.error = "IOError"])
    /\ UNCHANGED <<rfs, lfs, call, ncalls, raced>>

\* FS.hash: return res
HashReturn ==
    /\ DgAt("hash", "native") /\ Dg("hash").i > MaxPaths
    /\ DgEnd("hash", [Dg("hash") EXCEPT !.outcome = "returned"])
    /\ UNCHANGED <<rfs, lfs, call, ncalls, raced>>

\* hash_bycmd, first blocking call:
\* self.client.exec_command(shlex.join(["sha1sum", *paths])) opens a channel
\* and starts the command; stdin.close() and res = {} follow
ExecCommand(x) ==
    /\ x \in {"hash", "hash_bycmd"}
    /\ DgAt(x, "exec")
    /\ DgStep(x, [Dg(x) EXCEPT !.stage = "read", !.execs = @ + 1, !.res = <<>>])
    /\ UNCHANGED <<rfs, lfs, call, ncalls, raced>>

\* exec_command raises (the server refuses the channel or the request):
\* hash_bycmd does not catch it, and neither does the except branch of hash
ExecCommandFails(x) ==
    /\ x \in {"hash", "hash_bycmd"}
    /\ DgAt(x, "exec")
    /\ DgEnd(x, [Dg(x) EXCEPT !.outcome = "raised", !.error = "SSHException"])
    /\ UNCHANGED <<rfs, lfs, call, ncalls, raced>>

\* hash_bycmd, second blocking call: stdout.read() gives what the command
\* wrote until it ended.  The shell has no such command (no output); or the
\* command runs to its end; or it ends early, after some whole lines and
\* maybe a part of the next
StdoutRead(x) ==
    /\ x \in {"hash", "hash_bycmd"}
    /\ DgAt(x, "read")
    /\ LET c == Dg(x)
           args == [k \in 1..Len(c.argv) |-> str(c.argv[k])]
           lines == sha1sum(rfs, args)
       IN \E n \in 0..Len(lines), cut \in {"none", "digest", "name"} :
            /\ dg.cmd = "missing" => n = 0 /\ cut = "none"
            /\ dg.cmd = "ran" => n = Len(lines) /\ cut = "none"
            /\ cut # "none" => n < Len(lines)
            /\ DgStep(x, [c EXCEPT !.stage = "status",
                                   !.stdout = cut_output(lines, n, cut)])
    /\ UNCHANGED <<rfs, lfs, call, ncalls, raced>>

\* hash_bycmd, third blocking call: stdout.channel.recv_exit_status(), and
\* the rest of the method.  The status is 127 when the shell has no such
\* command, 0 or 1 (a file was missing) when the command ran to its end, and
\* any status when it ended early.  Status 127 raises; the lines are parsed;
\* the status decides between raising and returning
RecvExitStatus(x) ==
    /\ x \in {"hash", "hash_bycmd"}
    /\ DgAt(x, "status")
    /\ \E exit \in Exits :
         LET c == [Dg(x) EXCEPT !.exit = exit]
             complete == Len(c.stdout) = Len(c.argv) \/ c.argv = <<>>
             res == IF exit = 127 THEN <<>> ELSE parse(c.stdout)
         IN /\ dg.cmd = "missing" => exit = 127
            /\ dg.cmd = "ran" => exit = IF complete THEN 0 ELSE 1
            /\ IF exit # 127 /\ unpack_raises(c.stdout)
               THEN DgEnd(x, [c EXCEPT !.outcome = "raised", !.error = "ValueError"])
               ELSE IF bycmd_raises(exit, res)
               THEN DgEnd(x, [c EXCEPT !.outcome = "raised",
                                       !.error = IF exit = 127 THEN "ValueError"
                                                 ELSE "Exception"])
               ELSE DgEnd(x, [c EXCEPT !.outcome = "returned", !.res = res])
    /\ UNCHANGED <<rfs, lfs, call, ncalls, raced>>

\* FS.hash_local(paths): open() raises for a file that is missing
HashLocal ==
    /\ dg.running = "-" /\ Dg("hash_local").outcome = "none"
    /\ dg.is_dir.outcome = "none"
    /\ ncalls < MaxDigestCalls
    /\ ncalls' = ncalls + 1
    /\ IF \A i \in 1..MaxPaths : FsExists(lfs, HashPaths[i])
       THEN DgEnd("hash_local", [NotCalled EXCEPT
                                    !.outcome = "returned",
                                    !.res = hash_local(lfs, HashPaths, dg.algo)])
       ELSE DgEnd("hash_local", [NotCalled EXCEPT
                                    !.outcome = "raised",
                                    !.error = "FileNotFoundError"])
    /\ UNCHANGED <<rfs, lfs, call, raced>>

\* FS.is_dir(path), for each answer stat can give
IsDir ==
    /\ dg.running = "-" /\ dg.is_dir.outcome = "none"
    /\ \A x \in Methods : Dg(x).outcome = "none"
    /\ ncalls < MaxDigestCalls
    /\ ncalls' = ncalls + 1
    /\ \E st \in Stats :
         dg' = [dg EXCEPT !.is_dir = [outcome |-> "returned", st |-> st,
                                      res |-> is_dir(st)]]
    /\ UNCHANGED <<rfs, lfs, call, raced>>

NextDigest ==
    \/ \E x \in Methods : HashCall(x)
    \/ HashOpen
    \/ HashCheck
    \/ HashClose
    \/ HashCheckFails
    \/ HashReturn
    \/ \E x \in Methods : ExecCommand(x)
    \/ \E x \in Methods : ExecCommandFails(x)
    \/ \E x \in Methods : StdoutRead(x)
    \/ \E x \in Methods : RecvExitStatus(x)
    \/ HashLocal
    \/ IsDir

SpecDigest == InitDigest /\ [][NextDigest]_vars

(* FS.hash while another client of the server changes the files *)

\* another client renames a file FS.hash was asked about; a handle open on
\* the file follows it
OtherRenames ==
    /\ ~raced /\ dg.running = "hash"
    /\ ~FsExists(rfs, Moved)
    /\ \E i \in 1..MaxPaths :
         /\ FsExists(rfs, HashPath(i))
         /\ rfs' = FsRename(rfs, HashPath(i), Moved)
         /\ dg' = [dg EXCEPT !.m["hash"].fh = HandleAfterRename(@, HashPath(i), Moved)]
    /\ raced' = TRUE
    /\ UNCHANGED <<lfs, call, ncalls>>

\* the other client writes into the file it renamed
OtherWrites ==
    /\ raced /\ dg.running = "hash"
    /\ FsExists(rfs, Moved) /\ rfs[Moved] # OtherData
    /\ rfs' = FsWrite(rfs, Moved, OtherData)
    /\ UNCHANGED <<lfs, call, ncalls, raced, dg>>

NextDigestRace == NextDigest \/ OtherRenames \/ OtherWrites

SpecDigestRace == InitDigest /\ [][NextDigestRace]_vars

-----------------------------------------------------------------------------
(* Vocabulary of the properties *)

\* the sequential invocation
inv == call[1]

Started(c) == c.outcome # "none"

PutAt(c, levels) == Started(c) /\ c.op = "put" /\ c.level \in levels

GetAt(c, levels) == Started(c) /\ c.op = "get" /\ c.level \in levels

\* the file system the invocation's target and temporaries live in
TargetFs(c) == IF c.op = "put" THEN rfs ELSE lfs

Target(c) == IF c.op = "put" THEN RemotePath ELSE LocalPath

\* the primitive at which the invocation raised
FailedAt(c, ops) == c.outcome = "raised" /\ Cur(c).op \in ops

\* every step of the method succeeded: the method handed its result to
\* FS.put / FS.get
Completed(c) ==
    /\ c.outcome \in {"returned", "raised"}
    /\ Cur(c).op \in {"return_attr", "return_stat"}
    /\ c.error \in {"", "ZeroDivisionError"}

\* the local directory is as the invocation left it: no listtmp_local has
\* created its file there since
AsLeft(c) == c.op = "get" => c.listing = "none"

\* temporaries generated by the invocation that exist
Leftover(c) == {n \in {c.tmpfn1, c.tmpfn2} \ {None} : FsExists(TargetFs(c), n)}

-----------------------------------------------------------------------------
(* C1 *)

\* C1 as stated: at levels 2, 3 and 4, when the destination held A and the
\* write step of put(B) fails, the destination still holds exactly A.
C1_Original ==
    (PutAt(inv, {2, 3, 4}) /\ inv.pre # NoData /\ FailedAt(inv, {"putfo"}))
        => Content(rfs, RemotePath) = inv.pre

\* C1 amended: that holds at levels 3 and 4; at level 2 the old content is not
\* kept at the destination but, complete, at the temporary it was renamed to,
\* and the destination is absent or holds what was written of B: nothing, a
\* part, or all of it.
C1_WriteFailureKeepsOld ==
    (PutAt(inv, {2, 3, 4}) /\ inv.pre # NoData /\ FailedAt(inv, {"putfo"}))
        => /\ inv.level \in {3, 4} => Content(rfs, RemotePath) = inv.pre
           /\ inv.level = 2
                => /\ Content(rfs, inv.tmpfn1) = inv.pre
                   /\ \/ ~FsExists(rfs, RemotePath)
                      \/ rfs[RemotePath] \in Prefixes(inv.payload)

\* a level-3 write failed after part of B had reached the temporary
C1_Witness ==
    /\ PutAt(inv, {3}) /\ inv.pre # NoData /\ FailedAt(inv, {"putfo"})
    /\ Len(inv.payload) = 2
    /\ Content(rfs, inv.tmpfn1) = SubSeq(inv.payload, 1, 1)

-----------------------------------------------------------------------------
(* C2 *)

\* C2: at every level, with the target present or absent before, a put or get
\* whose steps all succeed ends with the target holding the complete new
\* content and with none of its temporaries left.
C2_SuccessLeavesTargetOnly ==
    (Completed(inv) /\ AsLeft(inv))
        => /\ FsExists(TargetFs(inv), Target(inv))
           /\ inv.op = "put" => rfs[RemotePath] = inv.payload
           /\ inv.op = "get" => /\ FsExists(rfs, RemotePath)
                                /\ lfs[LocalPath] = rfs[RemotePath]
           /\ Leftover(inv) = {}

\* a level-4 put onto an existing destination raised ZeroDivisionError after
\* its last step
C2_WitnessRaised ==
    /\ PutAt(inv, {4}) /\ inv.pre # NoData /\ Completed(inv)
    /\ inv.outcome = "raised"

\* a level-4 put onto an existing destination returned
C2_Witness ==
    /\ PutAt(inv, {4}) /\ inv.pre # NoData /\ inv.outcome = "returned"
    /\ inv.tmpfn1 # None /\ inv.tmpfn2 # None

-----------------------------------------------------------------------------
(* C3 *)

\* C3 as stated: at every level, put(P) followed by get at the same level leaves the
\* local file holding exactly P, and both calls return len(P), whatever
\* existed remotely and locally before (earlier calls included).
C3_RoundTrip ==
    /\ (inv.op = "put" /\ Completed(inv))
        => inv.outcome = "returned" /\ inv.res = Len(inv.payload)
    /\ (GetAt(inv, Levels) /\ Completed(inv)
            /\ inv.prev.op = "put" /\ inv.prev.level = inv.level)
        => /\ Content(lfs, LocalPath) = inv.prev.payload
           /\ inv.outcome = "returned"
           /\ inv.res = Len(inv.prev.payload)

\* what remains of the round trip: the local file holds P whenever both calls
\* ran all their steps, and a call that returns, returns len(P)
C3_RoundTripWhenReturned ==
    /\ (inv.op = "put" /\ inv.outcome = "returned") => inv.res = Len(inv.payload)
    /\ (GetAt(inv, Levels) /\ Completed(inv)
            /\ inv.prev.op = "put" /\ inv.prev.level = inv.level)
        => /\ Content(lfs, LocalPath) = inv.prev.payload
           /\ inv.res = Len(inv.prev.payload)
           /\ inv.prev.res = Len(inv.prev.payload)

\* the second call, a get onto an existing local file, returned after a put of
\* two bytes at the same level
C3_Witness ==
    /\ GetAt(inv, {2}) /\ inv.outcome = "returned" /\ ncalls = 2
    /\ inv.prev.op = "put" /\ inv.prev.level = 2 /\ Len(inv.prev.payload) = 2
    /\ inv.pre # NoData

-----------------------------------------------------------------------------
(* C4 *)

\* the last rename of put_safe4 / get_safe4: temporary 1 onto the target
AtFinalRename(c) == Cur(c).op \in {"rename", "os_rename"} /\ Cur(c).a = "tmpfn1"

\* C4 as stated: during a level-4 put onto an existing destination, and after
\* an interruption at any step, the destination path is never absent.
C4_Original ==
    (PutAt(inv, {4}) /\ inv.pre # NoData) => FsExists(rfs, RemotePath)

\* C4 amended: the destination is absent only between the rename of the old
\* destination to temporary 2 and the rename of temporary 1 onto it (and after
\* a failure or interruption there); temporary 2 then holds the old content.
C4_AbsentOnlyBetweenRenames ==
    (PutAt(inv, {4}) /\ inv.pre # NoData)
        => \/ FsExists(rfs, RemotePath)
           \/ /\ inv.outcome # "returned"
              /\ AtFinalRename(inv)
              /\ Content(rfs, inv.tmpfn2) = inv.pre

\* the old destination was renamed aside, the new content waits in temporary 1
C4_Witness ==
    /\ PutAt(inv, {4}) /\ inv.pre # NoData /\ Running(inv)
    /\ ~FsExists(rfs, RemotePath)
    /\ Content(rfs, inv.tmpfn1) = inv.payload

-----------------------------------------------------------------------------
(* C5 *)

\* C5: during a level-3 put of B onto a destination holding A, rename being
\* atomic, the destination exists in every state and holds A or B, complete.
C5_Level3OldOrNew ==
    (PutAt(inv, {3}) /\ inv.pre # NoData)
        => Content(rfs, RemotePath) \in {inv.pre, inv.payload}

\* the rename has replaced A by B
C5_Witness ==
    /\ PutAt(inv, {3}) /\ inv.pre = OldRemote
    /\ Content(rfs, RemotePath) = inv.payload
    /\ Len(inv.payload) = 2

-----------------------------------------------------------------------------
(* C6 *)

\* C6 as stated: at every level and every step, at most one temporary of the
\* invocation remains when it is interrupted or fails there.
C6_Original == AsLeft(inv) => Cardinality(Leftover(inv)) <= 1

\* C6 amended: at most one remains, except at level 4 when the invocation is
\* interrupted or fails at one of its renames, where both temporaries remain.
C6_OneTemporaryButLevel4Renames ==
    \/ ~AsLeft(inv)
    \/ Cardinality(Leftover(inv)) <= 1
    \/ /\ inv.level = 4
       /\ inv.outcome \in {"running", "raised"}
       /\ Cur(inv).op \in {"rename", "os_rename"}

\* a level-4 put failed at its last rename with both temporaries in place
C6_Witness ==
    /\ PutAt(inv, {4}) /\ FailedAt(inv, {"rename"}) /\ AtFinalRename(inv)
    /\ Cardinality(Leftover(inv)) = 2

-----------------------------------------------------------------------------
(* C7 *)

\* the position, among the steps executed, of the step calling op
Position(c, op) ==
    CHOOSE i \in 1..Len(c.steps) : Program(c)[c.steps[i]].op = op

\* C7 as stated: a level-4 put checks the destination's existence only after
\* the write to temporary 1 has completed, so a destination that another actor
\* creates during the write is renamed aside, not overwritten by the last rename.
C7_ExistenceCheckedAfterStaging ==
    (PutAt(inv, {4}) /\ raced /\ Running(inv) /\ AtFinalRename(inv))
        => /\ Position(inv, "putfo") < Position(inv, "exists")
           /\ Content(rfs, RemotePath) # OtherData

-----------------------------------------------------------------------------
(* C8 *)

\* C8: a primitive that fails makes FS.put / FS.get raise; the steps run one
\* after the other in the method's order, each at most once, and the failed
\* step is the last one executed.
C8_ErrorsPropagateNoRetry ==
    LET n == Len(inv.steps) IN
    /\ inv.error # "" <=> inv.outcome = "raised"
    /\ inv.outcome = "raised" => (n > 0 /\ inv.steps[n] = inv.pc)
    /\ inv.outcome = "returned"
         => (n > 0 /\ inv.steps[n] = Len(Program(inv)) /\ inv.steps[n] = inv.pc)
    /\ \A i, j \in 1..n : i < j => inv.steps[i] < inv.steps[j]
    /\ Running(inv) => \A i \in 1..n : inv.steps[i] < inv.pc

\* a level-4 put raised at its last rename, after five steps
C8_Witness ==
    /\ PutAt(inv, {4}) /\ inv.pre # NoData
    /\ FailedAt(inv, {"rename"}) /\ AtFinalRename(inv)
    /\ inv.error = "IOError" /\ Len(inv.steps) = 6

-----------------------------------------------------------------------------
(* C9 *)

\* C9: tmpfile makes at most 10 attempts, one existence check each, on
\* candidates in the target's directory; a name it returns was reported
\* absent by its own check; when all 10 are reported present it raises and
\* returns no name.
C9_TmpfileBounded ==
    /\ inv.attempts <= MaxAttempts
    /\ inv.checks = inv.attempts
    /\ inv.error = "cannot create tmpfile?"
         => /\ inv.attempts = MaxAttempts
            /\ Cur(inv).op = "tmpfile"
            /\ inv[Cur(inv).a] = None
    /\ inv.op = "put"
         => \A n \in {inv.tmpfn1, inv.tmpfn2} \ {None} :
               /\ ~inv.reported
               /\ n.parent = RemotePath.parent

\* the tenth candidate was reported present as well: tmpfile raised
C9_Witness ==
    /\ inv.error = "cannot create tmpfile?"
    /\ inv.attempts = 10 /\ inv.checks = 10
    /\ inv.outcome = "raised"

-----------------------------------------------------------------------------
(* C10 *)

\* C10 as stated: tmpfile(x) never returns x, and the two names a level-4 put
\* generates in sequence for the same target are distinct.
C10_TmpfileDistinct ==
    /\ \A n \in {inv.tmpfn1, inv.tmpfn2} \ {None} : n # Target(inv)
    /\ (PutAt(inv, {4}) /\ inv.tmpfn1 # None /\ inv.tmpfn2 # None)
         => inv.tmpfn1 # inv.tmpfn2

-----------------------------------------------------------------------------
(* C19 *)

\* C19: a get at level 3 or 4 onto a local destination that held A, whose
\* remote read step fails (remote file missing, or the transfer raising):
\* the local destination still exists and holds exactly A.
C19_ReadFailureKeepsLocal ==
    (GetAt(inv, {3, 4}) /\ inv.pre # NoData /\ FailedAt(inv, {"sftp_get"}))
        => Content(lfs, LocalPath) = inv.pre

\* a level-4 get whose read of a missing remote file raised, after the
\* existence check saw the local destination
C19_Witness ==
    /\ GetAt(inv, {4}) /\ inv.pre = OldLocal /\ inv.exists
    /\ FailedAt(inv, {"sftp_get"}) /\ inv.error = "FileNotFoundError"
    /\ ~FsExists(rfs, RemotePath)
    /\ lfs[LocalPath] = OldLocal

-----------------------------------------------------------------------------
(* C20 *)

\* the places a put stores content at: its destination and its temporaries
Places(c) == {Target(c), c.tmpfn1, c.tmpfn2} \ {None}

\* C20: during one put of B at level 2, 3 or 4 onto a destination that held
\* A, in every state, after a failure at any step included, a complete A or
\* a complete B is stored at the destination or at one of the invocation's
\* temporaries; once no complete A is left, the complete B is at the
\* destination.
C20_CompleteCopyKept ==
    (PutAt(inv, {2, 3, 4}) /\ inv.pre # NoData)
        => /\ \E n \in Places(inv) : Content(rfs, n) \in {inv.pre, inv.payload}
           /\ (\A n \in Places(inv) : Content(rfs, n) # inv.pre)
                 => Content(rfs, RemotePath) = inv.payload

\* a level-2 put whose write raised with part of B at the destination: the
\* complete A is at the temporary
C20_Witness ==
    /\ PutAt(inv, {2}) /\ inv.pre = OldRemote /\ Len(inv.payload) = MaxLen
    /\ FailedAt(inv, {"putfo"})
    /\ Len(Content(rfs, RemotePath)) = 1
    /\ Content(rfs, inv.tmpfn1) = OldRemote

-----------------------------------------------------------------------------
(* C18 *)

\* C18 as stated: after a put at level 2, 3 or 4 on a target raised, every
\* temporary of the invocation that is left in the directory is in the list
\* listtmp returns for that target.
C18_LeftoversListed ==
    (PutAt(inv, {2, 3, 4}) /\ inv.outcome = "raised" /\ inv.listing = "returned")
        => Leftover(inv) \subseteq inv.listed

-----------------------------------------------------------------------------
(* Vocabulary of the digest properties *)

Finished(c) == c.outcome \in {"returned", "raised"}

\* the requested paths, and the paths a returned mapping has an entry for
Requested == {str(HashPaths[i]) : i \in 1..MaxPaths}

Keys(c) == {k.text : k \in DOMAIN c.res}

\* the methods that end in the command
CommandMethods == {"hash", "hash_bycmd"}

-----------------------------------------------------------------------------
(* C11 *)

\* the names the command was given
ArgNames(c) == {str(c.argv[k]) : k \in 1..Len(c.argv)}

\* hash(paths) goes to the command exactly when a request of the native
\* attempt raised an I/O error at some path, after a native digest of every
\* path before it; the command is given the paths in argv; the I/O error does
\* not reach the caller, who gets the mapping parsed from the command's
\* output, with no entry made natively, or what hash_bycmd raises; when no
\* path raises, the command is not run and the native entries are returned
WholeBatchFallsBack(h, argv) ==
    /\ h.stage \in {"exec", "read", "status"} => h.fellback
    /\ (Finished(h) /\ h.fellback)
         => /\ h.i \in 1..MaxPaths /\ h.natives = h.i - 1
            /\ h.execs <= 1 /\ h.argv = argv
            /\ h.error # "IOError"
            /\ h.outcome = "returned"
                 => /\ h.execs = 1
                    /\ h.res = parse(h.stdout)
                    /\ \A k \in DOMAIN h.res : k.type = "output"
    /\ (Finished(h) /\ ~h.fellback)
         => /\ h.execs = 0 /\ h.outcome = "returned"
            /\ h.natives = MaxPaths
            /\ \A k \in DOMAIN h.res : k.type = "Path"

\* C11 as stated: when the native attempt of hash(paths) raises an I/O error
\* at any path, the command is given all requested paths and hash returns
\* what hash_bycmd returns for all of them, with no native entry and without
\* raising the I/O error; when no path raises, the command is not run.
C11_WholeBatchFallsBack ==
    LET h == Dg("hash")
    IN /\ WholeBatchFallsBack(h, HashPaths)
       /\ (h.outcome = "returned" /\ h.fellback /\ dg.cmd = "ran"
             /\ Dg("hash_bycmd").outcome = "returned")
            => h.res = Dg("hash_bycmd").res

\* what the code does: the command is given all requested paths when paths is
\* a sequence, and the paths after the one that raised when paths is a
\* one-shot iterator
C11_FallsBackOverWhatIsLeftToDraw ==
    LET h == Dg("hash")
    IN /\ WholeBatchFallsBack(h, IF h.oneshot
                                 THEN SubSeq(HashPaths, h.i + 1, MaxPaths)
                                 ELSE HashPaths)
       /\ (h.outcome = "returned" /\ h.fellback /\ ~h.oneshot /\ dg.cmd = "ran"
             /\ Dg("hash_bycmd").outcome = "returned")
            => h.res = Dg("hash_bycmd").res

\* paths was a generator and the native attempt raised at the first path:
\* hash returned the command's digests of the other paths only
C11_WitnessOneShot ==
    LET h == Dg("hash")
    IN /\ h.outcome = "returned" /\ h.fellback /\ h.oneshot
       /\ h.i = 1 /\ dg.cmd = "ran"
       /\ \A i \in 1..MaxPaths : FsExists(rfs, HashPaths[i])
       /\ Keys(h) = Requested \ {str(HashPaths[1])}

\* paths was a sequence and the native attempt raised at the second path,
\* after one native digest: hash returned the command's digests of all paths
C11_WitnessSequence ==
    LET h == Dg("hash")
    IN /\ h.outcome = "returned" /\ h.fellback /\ ~h.oneshot
       /\ h.i = 2 /\ h.natives = 1
       /\ Keys(h) = Requested
       /\ \A k \in DOMAIN h.res : k.type = "output"

-----------------------------------------------------------------------------
(* C12 *)

C12_WitnessStatusOne ==
    LET c == Dg("hash_bycmd")
    IN /\ c.outcome = "returned" /\ c.exit = 1 /\ dg.cmd = "ran"
       /\ Cardinality(DOMAIN c.res) = MaxPaths - 1

\* status 127 came with output and hash_bycmd raised
C12_WitnessNotFound ==
    LET c == Dg("hash_bycmd")
    IN /\ c.outcome = "raised" /\ c.exit = 127 /\ c.stdout # <<>>
       /\ c.error = "ValueError"

-----------------------------------------------------------------------------
(* C13 *)

\* C13 as stated: for every value of HASH_ALGO, each digest hash, hash_bycmd
\* and hash_local return is computed with that algorithm, and two of them
\* return the same digest for a path (remote and local content are equal).
C13_SameAlgorithm ==
    \A x \in Methods, y \in Methods :
        (Dg(x).outcome = "returned" /\ Dg(y).outcome = "returned")
            => \A k \in DOMAIN Dg(x).res :
                  /\ Dg(x).res[k].algo = dg.algo
                  /\ \A j \in DOMAIN Dg(y).res :
                        j.text = k.text => Dg(y).res[j] = Dg(x).res[k]

-----------------------------------------------------------------------------
(* C14 *)

\* C14 as stated: a digest call that returns has an entry for exactly the
\* requested paths.
C14_Original ==
    \A x \in {"hash", "hash_local"} :
        Dg(x).outcome = "returned" => Keys(Dg(x)) = Requested

\* C14, amended: hash without fallback and hash_local return an entry for
\* exactly the requested paths.  hash_bycmd, called by hash's fallback or
\* directly, returns an entry for every file name in the command's output
\* and for nothing else; when the command ran to its end on at least one
\* path, these are the paths it was given that exist.  hash_bycmd is given
\* the requested paths when called directly and when hash, called with a
\* sequence, falls back.
C14_KeysOfReturnedMapping ==
    /\ (Dg("hash").outcome = "returned" /\ ~Dg("hash").fellback)
         => Keys(Dg("hash")) = Requested
    /\ Dg("hash_local").outcome = "returned"
         => Keys(Dg("hash_local")) = Requested
    /\ \A x \in CommandMethods :
         (Dg(x).outcome = "returned" /\ Dg(x).execs = 1)
            => /\ Keys(Dg(x)) = {Dg(x).stdout[k].fn : k \in 1..Len(Dg(x).stdout)}
               /\ (dg.cmd = "ran" /\ Dg(x).argv # <<>>)
                    => Keys(Dg(x)) = {str(y) : y \in DOMAIN rfs} \cap ArgNames(Dg(x))
    /\ \A x \in CommandMethods :
         (Dg(x).execs = 1 /\ ~Dg(x).oneshot) => ArgNames(Dg(x)) = Requested

\* hash, called with a sequence, fell back at a missing file; the command
\* ended with status 1 and hash returned without an entry for that file
C14_Witness ==
    LET h == Dg("hash")
    IN /\ h.outcome = "returned" /\ h.fellback /\ h.exit = 1 /\ ~h.oneshot
       /\ dg.cmd = "ran" /\ dg.ext
       /\ ~FsExists(rfs, HashPaths[h.i])
       /\ Keys(h) = Requested \ {str(HashPaths[h.i])}

\* hash_bycmd returned an entry for a name that is no requested path: the
\* command's output ended inside a file name
C14_WitnessCutName ==
    LET c == Dg("hash_bycmd")
    IN c.outcome = "returned" /\ ~(Keys(c) \subseteq Requested)

-----------------------------------------------------------------------------
(* C15 *)

\* C15 as stated: is_dir does not raise for a missing path, and returns true
\* exactly when the path exists and is a directory.
C15_TrueIffDirectory ==
    Finished(dg.is_dir)
        => /\ dg.is_dir.outcome = "returned"
           /\ dg.is_dir.res <=> dg.is_dir.st.type = "dir"

-----------------------------------------------------------------------------
(* Vocabulary of the properties of two puts at once *)

BothFinished == \A p \in Sessions : Finished(call[p])

\* the put ran all its steps, its destination holds what it was given and
\* none of its temporaries is left
Settled(p) ==
    /\ Completed(call[p])
    /\ Content(rfs, call[p].dest) = call[p].payload
    /\ Leftover(call[p]) = {}

-----------------------------------------------------------------------------
(* C16 *)

\* C16 as stated: two puts of any levels, each on its own session, onto two
\* distinct destinations of one directory: under every interleaving both
\* return, each destination holds the payload put to it, and the directory
\* holds no temporary.
C16_DistinctDestinationsIndependent ==
    (call[1].dest # call[2].dest /\ BothFinished)
        => /\ \A p \in Sessions : call[p].outcome = "returned" /\ Settled(p)
           /\ DOMAIN rfs = {call[1].dest, call[2].dest}

\* C16 but for the coincidence of the two names of one level-4 put and for
\* the division by an elapsed time of zero: when each put's names differ and
\* no put raised ZeroDivisionError, both puts return and only the two
\* destinations, with their payloads, are in the directory.
C16_ButForTokenCollision ==
    (\A p \in Sessions : /\ call[p].tmpfn1 = None \/ call[p].tmpfn1 # call[p].tmpfn2
                         /\ call[p].error # "ZeroDivisionError")
        => C16_DistinctDestinationsIndependent

\* C16 apart from the value returned: when each put's names differ, both
\* puts run all their steps and only the two destinations, with their
\* payloads, are in the directory.
C16_ButForTokenCollisionCompleted ==
    (call[1].dest # call[2].dest /\ BothFinished
        /\ \A p \in Sessions : call[p].tmpfn1 = None \/ call[p].tmpfn1 # call[p].tmpfn2)
        => /\ \A p \in Sessions : Settled(p)
           /\ DOMAIN rfs = {call[1].dest, call[2].dest}

-----------------------------------------------------------------------------
(* C17 *)

\* both puts have the level and go onto the same destination, which existed
SameExisting(level) ==
    /\ call[1].dest = call[2].dest /\ call[1].pre # NoData
    /\ \A p \in Sessions : call[p].level = level

\* the step of the protocol that renames the destination aside
Aside(step) == step.op = "rename" /\ step.a = "path"

\* the names the two puts generated, all different
NamesApart ==
    LET names == <<call[1].tmpfn1, call[1].tmpfn2, call[2].tmpfn1, call[2].tmpfn2>>
    IN \A i \in 1..4, j \in 1..4 :
          (i # j /\ names[i] # None) => names[i] # names[j]

\* C17: two puts at level 2, and likewise two at level 4, onto the same
\* existing destination.  While one put has renamed the destination aside
\* and has not yet opened or renamed its content there, no entry is at the
\* destination for the other, which saw it exist and is about to rename it
\* aside.  When that rename then fails, the result is inconsistent: that put raised, the
\* destination holds the other's payload, and at level 4 the payload of the
\* failed put is left in its temporary.
C17_RenameAsideRace ==
    \A level \in {2, 4}, p \in Sessions, q \in Sessions :
        (SameExisting(level) /\ p # q)
            => /\ ( /\ Running(call[p]) /\ Aside(Cur(call[p])) /\ call[p].exists
                    /\ Running(call[q]) /\ call[q].steps # <<>> /\ call[q].io = "-"
                    /\ Aside(Program(call[q])[call[q].steps[Len(call[q].steps)]]) )
                    => ~FsExists(rfs, call[p].dest)
               /\ ( /\ BothFinished /\ NamesApart
                    /\ call[p].outcome = "raised" /\ Aside(Cur(call[p])) )
                    => /\ call[p].error = "FileNotFoundError"
                       /\ call[p].exists
                       /\ Settled(q)
                       /\ DOMAIN rfs = {call[q].dest} \cup Leftover(call[p])
                       /\ level = 4 => /\ Leftover(call[p]) = {call[p].tmpfn1}
                                       /\ rfs[call[p].tmpfn1] = call[p].payload
                       /\ level = 2 => Leftover(call[p]) = {}

\* two level-4 puts, four different names: the second put found the
\* destination renamed away by the first and raised; the destination holds
\* the first payload and the second is left in a temporary
C17_Witness ==
    /\ SameExisting(4) /\ BothFinished /\ NamesApart
    /\ call[1].outcome = "returned"
    /\ call[2].outcome = "raised" /\ Aside(Cur(call[2]))
    /\ Content(rfs, RemotePath) = call[1].payload
    /\ Leftover(call[2]) = {call[2].tmpfn1}

\* the same at level 2: the second put raised at its rename of the
\* destination, renamed away by the first
C17_WitnessLevel2 ==
    /\ SameExisting(2) /\ BothFinished /\ NamesApart
    /\ call[1].outcome = "returned"
    /\ call[2].outcome = "raised" /\ Aside(Cur(call[2]))
    /\ Content(rfs, RemotePath) = call[1].payload

====
